---- MODULE Spec2Model ----
(***************************************************************************)
(* Model of the Roobet scraper batch pipeline.                             *)
(*                                                                         *)
(*   clean_multi_provider_scraper.py : main(), scrape_single_provider(),   *)
(*                                      save_provider_data(),              *)
(*                                      close_all_chrome()                 *)
(*   url_quality_fixer.py :            main(), fix_image_url_quality(),    *)
(*                                      sanitize_filename(),               *)
(*                                      process_provider_with_fixed_urls(),*)
(*                                      download_and_convert_image(),      *)
(*                                      create_metadata_files()            *)
(*                                                                         *)
(* The working directory (checkpoint.json and the per-provider output      *)
(* files) survives the process; everything else is rebuilt by each run.    *)
(* A run can be killed from outside at any step and a new run started.     *)
(***************************************************************************)
EXTENDS Integers, Sequences, FiniteSets, TLC

----------------------------------------------------------------------------
(* Bounds of the model *)

NumTargets == 2
MaxRuns == 2
MaxAnchors == 2
MaxUrlLen == 4

(* `while click_count < 50` *)
SafetyLimit == 50

----------------------------------------------------------------------------
(* The provider list: (url, name) pairs with pairwise different names.     *)
(* A provider is identified by its position; its name is that number.      *)

providers == [n \in 1..NumTargets |-> n]

----------------------------------------------------------------------------
(* checkpoint.json as the sequence of JSON tokens in the file.             *)

Tok(k, v) == [k |-> k, v |-> v]

RECURSIVE NameToks(_)
NameToks(items) ==
    IF items = <<>> THEN <<>>
    ELSE <<Tok("s", Head(items))>> \o NameToks(Tail(items))

(* json.dump(checkpoint_data, f, indent=2): the text of the dict           *)
JsonDump(cp, tg, sp) ==
    <<Tok("{", 0), Tok("completed_providers", 0), Tok("[", 0)>>
      \o NameToks(cp)
      \o <<Tok("]", 0),
           Tok("last_updated", 0), Tok("iso", 0),
           Tok("total_games_so_far", 0), Tok("n", tg),
           Tok("successful_providers", 0), Tok("n", sp),
           Tok("}", 0)>>

IsKey(t) == t.k \in {"completed_providers", "last_updated",
                     "total_games_so_far", "successful_providers"}
IsScalar(t) == t.k \in {"n", "null", "str", "iso"}

(* position just after the list opened at p, 0 when it is not closed *)
RECURSIVE ListEnd(_, _)
ListEnd(f, p) ==
    IF p > Len(f) THEN 0
    ELSE IF f[p].k = "]" THEN p + 1
    ELSE IF f[p].k = "s" THEN ListEnd(f, p + 1)
    ELSE 0

(* position just after the value starting at p, 0 when there is none *)
ValueEnd(f, p) ==
    IF p > Len(f) THEN 0
    ELSE IF IsScalar(f[p]) THEN p + 1
    ELSE IF f[p].k = "[" THEN ListEnd(f, p + 1)
    ELSE 0

(* the Python value of the JSON value f[p .. e-1] *)
PyValue(f, p, e) ==
    IF f[p].k = "[" THEN
        [kind |-> "list", items |-> [j \in 1..(e - p - 2) |-> f[p + j].v], v |-> 0]
    ELSE IF f[p].k = "n" THEN [kind |-> "int", items |-> <<>>, v |-> f[p].v]
    ELSE IF f[p].k = "null" THEN [kind |-> "None", items |-> <<>>, v |-> 0]
    ELSE [kind |-> "str", items |-> <<>>, v |-> f[p].v]

EmptyList == [kind |-> "list", items |-> <<>>, v |-> 0]
ParseError == [ok |-> FALSE, dict |-> FALSE, has |-> FALSE, cp |-> EmptyList]

(* members of an object from position p on; the object ends the document *)
RECURSIVE ParseMembers(_, _, _)
ParseMembers(f, p, acc) ==
    IF p > Len(f) THEN ParseError
    ELSE IF f[p].k = "}" THEN (IF p = Len(f) THEN acc ELSE ParseError)
    ELSE IF ~IsKey(f[p]) THEN ParseError
    ELSE LET e == ValueEnd(f, p + 1) IN
         IF e = 0 THEN ParseError
         ELSE ParseMembers(f, e,
                IF f[p].k = "completed_providers"
                THEN [acc EXCEPT !.has = TRUE, !.cp = PyValue(f, p + 1, e)]
                ELSE acc)

(* json.load(f): ok = parsed, dict = the document is an object,            *)
(* has = it has the key completed_providers, cp = that key's value         *)
JsonLoad(f) ==
    IF f = <<>> THEN ParseError
    ELSE IF f[1].k = "{" THEN
        ParseMembers(f, 2, [ok |-> TRUE, dict |-> TRUE, has |-> FALSE, cp |-> EmptyList])
    ELSE IF ValueEnd(f, 1) = Len(f) + 1 THEN
        [ok |-> TRUE, dict |-> FALSE, has |-> FALSE, cp |-> EmptyList]
    ELSE ParseError

(* the provider names a reader gets from a checkpoint file *)
NamesOf(exists, f) ==
    LET d == JsonLoad(f) IN
    IF exists /\ d.ok /\ d.dict /\ d.has /\ d.cp.kind = "list"
    THEN {d.cp.items[j] : j \in 1..Len(d.cp.items)}
    ELSE {}

(* provider_name in completed_providers *)
Iterable(cp) == cp.kind \in {"list", "str"}
Contains(cp, name) ==
    IF cp.kind = "list" THEN \E j \in 1..Len(cp.items) : cp.items[j] = name
    ELSE cp.v = name

----------------------------------------------------------------------------
VARIABLES
    run,                  \* number of the batch run (process) in progress
    pc,                   \* where the run stands
    error,                \* the uncaught exception that ended the run, if any
    ckptExists,           \* os.path.exists(checkpoint_file)
    ckptFile,             \* the tokens of New_Providers_data/checkpoint.json
    outputs,              \* per provider: its txt, json and html output files
    chrome,               \* number of Chrome processes alive on the machine
    completed_providers,  \* main(): the list loaded and appended to
    total_games,          \* main(): games of this run's successful providers
    successful_providers, \* main(): this run's successful providers
    i,                    \* main(): position in the provider list
    driver,               \* scrape_single_provider(): the browser session
    page,                 \* the listing page the session shows
    click_count,          \* scrape_single_provider(): clicks made
    k,                    \* position of the anchor the for loop is at
    games,                \* scrape_single_provider(): records harvested
    result,               \* the dict scrape_single_provider() returns
    loaded,               \* names the checkpoint file held when the run read it
    attempts,             \* per provider: sessions asked for in this run
    failed,               \* providers whose result was a failure in this run
    failedPrev,           \* the same, of the run before
    recorded,             \* names whose checkpoint write completed in this run
    preWrite,             \* checkpoint file before the run's last open(.., 'w')
    pending,              \* the text the run's last checkpoint write set out to write
    steps                 \* what main() has done for the provider it last turned to

disk == <<ckptExists, ckptFile, outputs, chrome>>
mainVars == <<completed_providers, total_games, successful_providers, i>>
scrapeVars == <<driver, page, click_count, k, games>>
pastVars == <<loaded, attempts, failed, failedPrev, recorded, preWrite, pending>>
histVars == <<pastVars, steps>>
scraperVars == <<run, pc, error, disk, mainVars, scrapeVars, result, histVars>>

(* url_quality_fixer.py, the second script, run on what the first one left *)
VARIABLES
    fixer_pc,             \* where the script stands
    fixer_run,            \* number of the run of the script in progress
    fixer_providers,      \* main(): the provider directories found, in order
    pi,                   \* main(): position in that list
    all_games_data,       \* main(): the records of all providers so far
    metadata,             \* games_metadata.json as create_metadata_files() wrote it
    provider_name,        \* process_provider_with_fixed_urls(): its argument
    data,                 \* the provider's json file as json.load() gives it
    gi,                   \* position in games (the loop's i)
    original_image_url,   \* the record's image_url
    fixed_image_url,      \* fix_image_url_quality(original_image_url)
    image_path,           \* the record's derived output path
    processed_games,      \* the list the call returns
    successful_downloads, \* images counted as there
    bad_quality_fixed,    \* records counted as having the bad pattern
    image_files,          \* the files under Final_Quality_Fixed/
    http_gets             \* number of requests.get() calls made so far

mainFixerVars == <<fixer_providers, pi, all_games_data, metadata>>
recordVars == <<gi, original_image_url, fixed_image_url, image_path>>
processVars == <<provider_name, data, recordVars, processed_games,
                 successful_downloads, bad_quality_fixed>>
fixerVars == <<fixer_pc, fixer_run, mainFixerVars, processVars, image_files, http_gets>>

vars == <<scraperVars, fixerVars>>

NoData == [ok |-> FALSE, games |-> <<>>]
NoMetadata == [written |-> FALSE, total_games |-> 0, total_providers |-> 0, games |-> <<>>]

(* locals of process_provider_with_fixed_urls() outside a record *)
NoRecord ==
    /\ original_image_url = <<>> /\ fixed_image_url = <<>> /\ image_path = <<>>

(* main() of the second script before its loop *)
FreshFixerMain ==
    /\ fixer_providers = <<>> /\ pi = 0 /\ all_games_data = <<>>
    /\ metadata = NoMetadata

(* process_provider_with_fixed_urls() before a call *)
ProcessIdle ==
    /\ gi = 0 /\ NoRecord
    /\ processed_games = <<>>
    /\ successful_downloads = 0 /\ bad_quality_fixed = 0

(* the second script is not run *)
FixerOff ==
    /\ fixer_pc = "off" /\ fixer_run = 0
    /\ FreshFixerMain
    /\ provider_name = <<>> /\ data = NoData /\ ProcessIdle
    /\ image_files = {} /\ http_gets = 0

(* total_games: the field of that name in the provider's json file *)
NoFiles == [txt |-> "absent", json |-> "absent", html |-> "absent", total_games |-> 0]
NoResult == [success |-> FALSE, error |-> "", games |-> <<>>, click_count |-> 0, html |-> ""]
NoPage == [avail |-> 0, anchors |-> <<>>]

(* the dict of the except branch, lines 118-124 *)
FailureResult(e) ==
    [success |-> FALSE, error |-> e, games |-> <<>>, click_count |-> 0, html |-> ""]

(* the dict of the try branch, lines 109-114 *)
SuccessResult(g, c) ==
    [success |-> TRUE, error |-> "", games |-> g, click_count |-> c, html |-> "page"]

(* checkpoint files a run may find that no run of this program wrote *)
ForeignFiles ==
    { <<>>,
      <<Tok("{", 0), Tok("completed_providers", 0), Tok("null", 0), Tok("}", 0)>>,
      <<Tok("{", 0), Tok("completed_providers", 0), Tok("str", 0), Tok("}", 0)>> }

(* locals of scrape_single_provider() before and after a call *)
ScrapeIdle ==
    /\ driver = "none" /\ page = NoPage /\ click_count = 0
    /\ k = 0 /\ games = <<>>

FreshMain ==
    /\ completed_providers = EmptyList
    /\ total_games = 0 /\ successful_providers = 0 /\ i = 1
    /\ ScrapeIdle
    /\ result = NoResult
    /\ error = ""

FreshHist ==
    /\ loaded = {} /\ attempts = [n \in 1..NumTargets |-> 0]
    /\ failed = {} /\ recorded = {}

Init ==
    /\ run = 1 /\ pc = "load"
    /\ \/ ckptExists = FALSE /\ ckptFile = <<>>
       \/ ckptExists = TRUE /\ ckptFile \in ForeignFiles
    /\ outputs = [n \in 1..NumTargets |-> NoFiles]
    /\ chrome = 0
    /\ FreshMain /\ FreshHist
    /\ failedPrev = {}
    /\ preWrite = <<ckptExists, ckptFile>>
    /\ pending = <<>>
    /\ steps = <<>>
    /\ FixerOff

----------------------------------------------------------------------------
(* main(), lines 219-231: load the checkpoint *)

LoadedValue(exists, f) ==
    LET d == JsonLoad(f) IN
    IF ~exists \/ ~d.ok \/ ~d.dict \/ ~d.has THEN EmptyList ELSE d.cp

LoadCheckpoint ==
    /\ pc = "load"
    /\ completed_providers' = LoadedValue(ckptExists, ckptFile)
    /\ loaded' = NamesOf(ckptExists, ckptFile)
    /\ pc' = "loop"
    /\ UNCHANGED <<fixerVars, run, error, disk, total_games, successful_providers, i,
                   scrapeVars, result, attempts, failed, failedPrev, recorded,
                   preWrite, pending, steps>>

(* a membership test that never finds the name *)
AlreadyCompletedNever(cp, name) == FALSE

(* line 238: the test `provider_name in completed_providers` *)
AlreadyCompleted(cp, name) == Contains(cp, name)

(* main(), lines 236-240: `if provider_name in completed_providers: continue` *)
SkipCompleted ==
    /\ pc = "loop" /\ i <= NumTargets
    /\ Iterable(completed_providers)
    /\ AlreadyCompleted(completed_providers, providers[i])
    /\ i' = i + 1
    /\ steps' = <<"skip">>
    /\ UNCHANGED <<fixerVars, run, pc, error, disk, completed_providers, total_games,
                   successful_providers, scrapeVars, result, pastVars>>

(* the same test on a value that is no container: TypeError, uncaught *)
MembershipTypeError ==
    /\ pc = "loop" /\ i <= NumTargets
    /\ ~Iterable(completed_providers)
    /\ pc' = "aborted" /\ error' = "TypeError"
    /\ UNCHANGED <<fixerVars, run, disk, mainVars, scrapeVars, result, histVars>>

(* close_all_chrome(), lines 23-31, called at line 247 *)
(* The sweep kills the Chrome processes one by one; an exception of        *)
(* psutil ends it silently with the rest of them alive.                    *)
CloseAllChrome ==
    /\ pc = "loop" /\ i <= NumTargets
    /\ Iterable(completed_providers)
    /\ ~AlreadyCompleted(completed_providers, providers[i])
    /\ \E left \in 0..chrome : chrome' = left
    /\ pc' = "chrome"
    /\ steps' = <<"cleanup">>
    /\ UNCHANGED <<fixerVars, run, error, ckptExists, ckptFile, outputs, mainVars,
                   scrapeVars, result, pastVars>>

(* main(), lines 281-287: the list is consumed *)
Finish ==
    /\ pc = "loop" /\ i > NumTargets
    /\ pc' = "done"
    /\ UNCHANGED <<fixerVars, run, error, disk, mainVars, scrapeVars, result, histVars>>

----------------------------------------------------------------------------
(* scrape_single_provider(), lines 33-128, step by step *)

(* line 39, outside the try *)
NewDriver ==
    /\ pc = "chrome"
    /\ driver' = "open" /\ chrome' = chrome + 1
    /\ attempts' = [attempts EXCEPT ![i] = @ + 1]
    /\ steps' = Append(steps, "open")
    /\ pc' = "get"
    /\ UNCHANGED <<fixerVars, run, error, ckptExists, ckptFile, outputs, mainVars, page,
                   click_count, k, games, result,
                   loaded, failed, failedPrev, recorded, preWrite, pending>>

NewDriverFails ==
    /\ pc = "chrome"
    /\ attempts' = [attempts EXCEPT ![i] = @ + 1]
    /\ pc' = "aborted" /\ error' = "WebDriverException"
    /\ UNCHANGED <<fixerVars, run, disk, mainVars, scrapeVars, result,
                   loaded, failed, failedPrev, recorded, preWrite, pending, steps>>

(* the steps of the try block that can raise into lines 116-124 *)
TryErrors == {"get", "find", "page_source"}

(* an except branch that hands back what the try block had gathered *)
ExceptPartial(e) ==
    /\ result' = [success |-> FALSE, error |-> e, games |-> games,
                  click_count |-> click_count, html |-> ""]
    /\ pc' = "finally"

(* leaving the try through the except branch, lines 116-124 *)
Except(e) ==
    /\ result' = FailureResult(e)
    /\ pc' = "finally"

(* lines 44-53; p is the page the site serves: how often it offers the    *)
(* Load More button, and its anchors in document order                     *)
DriverGet(p) ==
    /\ pc = "get"
    /\ page' = p /\ click_count' = 0
    /\ pc' = "expand"
    /\ UNCHANGED <<fixerVars, run, error, disk, mainVars, driver, k, games, result, histVars>>

DriverGetFails ==
    /\ pc = "get"
    /\ Except("get")
    /\ UNCHANGED <<fixerVars, run, error, disk, mainVars, scrapeVars, histVars>>

(* a loop condition that is off by one *)
MayClickInclusive(c) == c <= SafetyLimit

(* line 55: `while click_count < 50` *)
MayClick(c) == c < SafetyLimit

(* lines 55-61: the button is found and clicked *)
ClickLoadMore ==
    /\ pc = "expand" /\ MayClick(click_count)
    /\ click_count < page.avail
    /\ click_count' = click_count + 1
    /\ UNCHANGED <<fixerVars, run, pc, error, disk, mainVars, driver, page, k, games,
                   result, histVars>>

(* lines 62-64: find_element or click raised, break *)
LoadMoreGone ==
    /\ pc = "expand" /\ MayClick(click_count)
    /\ click_count >= page.avail
    /\ pc' = "find"
    /\ UNCHANGED <<fixerVars, run, error, disk, mainVars, scrapeVars, result, histVars>>

(* line 55: the loop condition fails *)
SafetyLimitReached ==
    /\ pc = "expand" /\ ~MayClick(click_count)
    /\ pc' = "find"
    /\ UNCHANGED <<fixerVars, run, error, disk, mainVars, scrapeVars, result, histVars>>

(* lines 70-84: the container, its first div, the anchors in it *)
FindAnchors ==
    /\ pc = "find"
    /\ games' = <<>> /\ k' = 1
    /\ pc' = "anchors"
    /\ UNCHANGED <<fixerVars, run, error, disk, mainVars, driver, page, click_count,
                   result, histVars>>

FindAnchorsFails ==
    /\ pc = "find"
    /\ Except("find")
    /\ UNCHANGED <<fixerVars, run, error, disk, mainVars, scrapeVars, histVars>>

(* a record numbered by its place among the records harvested *)
GameDataRenumbered(n, a) ==
    [index |-> Len(games) + 1,
     name |-> IF a.alt = "" THEN "Game " \o ToString(n) ELSE a.alt,
     image_url |-> a.src,
     game_link |-> a.href]

(* lines 90-100: the record of the anchor a at position n *)
GameData(n, a) ==
    [index |-> n,
     name |-> IF a.alt = "" THEN "Game " \o ToString(n) ELSE a.alt,
     image_url |-> a.src,
     game_link |-> a.href]

(* lines 87-101: the anchor gives its image and attributes *)
ExtractAnchor ==
    /\ pc = "anchors" /\ k <= Len(page.anchors)
    /\ ~page.anchors[k].raises
    /\ games' = Append(games, GameData(k, page.anchors[k]))
    /\ k' = k + 1
    /\ UNCHANGED <<fixerVars, run, pc, error, disk, mainVars, driver, page, click_count,
                   result, histVars>>

(* lines 106-107: find_element or get_attribute raised *)
ExtractAnchorFails ==
    /\ pc = "anchors" /\ k <= Len(page.anchors)
    /\ page.anchors[k].raises
    /\ k' = k + 1
    /\ UNCHANGED <<fixerVars, run, pc, error, disk, mainVars, driver, page, click_count,
                   games, result, histVars>>

(* lines 109-114 *)
ReturnSuccess ==
    /\ pc = "anchors" /\ k > Len(page.anchors)
    /\ result' = SuccessResult(games, click_count)
    /\ pc' = "finally"
    /\ UNCHANGED <<fixerVars, run, error, disk, mainVars, scrapeVars, histVars>>

(* line 113: driver.page_source raises inside the try *)
PageSourceFails ==
    /\ pc = "anchors" /\ k > Len(page.anchors)
    /\ Except("page_source")
    /\ UNCHANGED <<fixerVars, run, error, disk, mainVars, scrapeVars, histVars>>

(* a return that leaves the session to the garbage collector *)
DriverQuitSkipped ==
    /\ pc = "finally"
    /\ page' = NoPage /\ click_count' = 0 /\ k' = 0 /\ games' = <<>>
    /\ failed' = IF result.success THEN failed ELSE failed \cup {i}
    /\ pc' = "returned"
    /\ UNCHANGED <<fixerVars, run, error, disk, mainVars, driver, result,
                   loaded, attempts, failedPrev, recorded, preWrite, pending, steps>>

(* lines 126-128, then the return at line 250 *)
DriverQuit ==
    /\ pc = "finally"
    /\ driver' = "none" /\ chrome' = chrome - 1
    /\ page' = NoPage /\ click_count' = 0 /\ k' = 0 /\ games' = <<>>
    /\ failed' = IF result.success THEN failed ELSE failed \cup {i}
    /\ steps' = Append(steps, "quit")
    /\ pc' = "returned"
    /\ UNCHANGED <<fixerVars, run, error, ckptExists, ckptFile, outputs, mainVars, result,
                   loaded, attempts, failedPrev, recorded, preWrite, pending>>

(* line 127 raises: the exception leaves scrape_single_provider and main *)
DriverQuitFails ==
    /\ pc = "finally"
    /\ pc' = "aborted" /\ error' = "WebDriverException"
    /\ UNCHANGED <<fixerVars, run, disk, mainVars, scrapeVars, result, histVars>>

----------------------------------------------------------------------------
(* The try block of scrape_single_provider() as one step, for the batch    *)
(* runs: what lines 41-124 make of page p when step o raises ("ok": none). *)

RECURSIVE Harvest(_, _)
Harvest(as, n) ==
    IF n = 0 THEN <<>>
    ELSE IF as[n].raises THEN Harvest(as, n - 1)
    ELSE Append(Harvest(as, n - 1), GameData(n, as[n]))

Clicks(p) == IF p.avail < SafetyLimit THEN p.avail ELSE SafetyLimit

TryResult(p, o) ==
    IF o = "ok" THEN SuccessResult(Harvest(p.anchors, Len(p.anchors)), Clicks(p))
    ELSE FailureResult(o)

TryBlock(p, o) ==
    /\ pc = "get"
    /\ result' = TryResult(p, o)
    /\ pc' = "finally"
    /\ UNCHANGED <<fixerVars, run, error, disk, mainVars, scrapeVars, histVars>>

----------------------------------------------------------------------------
(* main(), lines 252-279: what becomes of the result *)

(* a failure branch that falls through to the checkpoint update *)
ReportFailureRecorded ==
    /\ pc = "returned" /\ ~result.success
    /\ pc' = "ckpt_open"
    /\ UNCHANGED <<fixerVars, run, error, disk, mainVars, scrapeVars, result, histVars>>

(* a cooldown that only the success branch is followed by *)
ReportFailureNoSleep ==
    /\ pc = "returned" /\ ~result.success
    /\ i' = i + 1 /\ result' = NoResult
    /\ pc' = "loop"
    /\ UNCHANGED <<fixerVars, run, error, disk, completed_providers, total_games,
                   successful_providers, scrapeVars, histVars>>

(* lines 274-279: the else branch, then time.sleep(5) *)
ReportFailure ==
    /\ pc = "returned" /\ ~result.success
    /\ i' = i + 1 /\ result' = NoResult
    /\ steps' = Append(steps, "sleep")
    /\ pc' = "loop"
    /\ UNCHANGED <<fixerVars, run, error, disk, completed_providers, total_games,
                   successful_providers, scrapeVars, pastVars>>

(* save_provider_data(), lines 137-151: open(txt_file, 'w') and its writes *)
SaveTxt ==
    /\ pc = "returned" /\ result.success
    /\ outputs' = [outputs EXCEPT ![i].txt = "complete"]
    /\ pc' = "save_json"
    /\ UNCHANGED <<fixerVars, run, error, ckptExists, ckptFile, chrome, mainVars, scrapeVars,
                   result, histVars>>

(* lines 154-162 *)
SaveJson ==
    /\ pc = "save_json"
    /\ outputs' = [outputs EXCEPT ![i].json = "complete",
                                  ![i].total_games = Len(result.games)]
    /\ pc' = "save_html"
    /\ UNCHANGED <<fixerVars, run, error, ckptExists, ckptFile, chrome, mainVars, scrapeVars,
                   result, histVars>>

(* a page archive left to be written after the checkpoint *)
SaveHtmlDeferred ==
    /\ pc = "save_html"
    /\ pc' = "ckpt_open"
    /\ UNCHANGED <<fixerVars, run, error, disk, mainVars, scrapeVars,
                   result, histVars>>

(* lines 165-167 *)
SaveHtml ==
    /\ pc = "save_html"
    /\ outputs' = [outputs EXCEPT ![i].html = "complete"]
    /\ pc' = "ckpt_open"
    /\ UNCHANGED <<fixerVars, run, error, ckptExists, ckptFile, chrome, mainVars, scrapeVars,
                   result, histVars>>

(* the checkpoint_data of lines 264-269, as json.dump will write it *)
Payload == JsonDump(completed_providers.items, total_games, successful_providers)

(* a list rebuilt from the new name alone *)
AppendNameOnly(items, name) == <<name>>

(* line 263: completed_providers.append(provider_name) *)
AppendName(items, name) == Append(items, name)

(* the file opened for update, its old text left in place *)
OpenKeep(f) == f

(* line 270: what open(checkpoint_file, 'w') leaves of the file f *)
OpenForWrite(f) == <<>>

(* lines 257-270: totals, append, open(checkpoint_file, 'w') *)
OpenCheckpoint ==
    /\ pc = "ckpt_open"
    /\ completed_providers.kind = "list"
    /\ total_games' = total_games + Len(result.games)
    /\ successful_providers' = successful_providers + 1
    /\ completed_providers' =
         [completed_providers EXCEPT !.items = AppendName(@, providers[i])]
    /\ preWrite' = <<ckptExists, ckptFile>>
    /\ pending' = JsonDump(completed_providers'.items, total_games', successful_providers')
    /\ ckptExists' = TRUE
    /\ ckptFile' = OpenForWrite(ckptFile)
    /\ pc' = "ckpt_dump"
    /\ UNCHANGED <<fixerVars, run, error, outputs, chrome, i, scrapeVars, result,
                   loaded, attempts, failed, failedPrev, recorded, steps>>

(* line 263 on a value that is no list: AttributeError, uncaught *)
AppendAttributeError ==
    /\ pc = "ckpt_open"
    /\ completed_providers.kind # "list"
    /\ total_games' = total_games + Len(result.games)
    /\ successful_providers' = successful_providers + 1
    /\ pc' = "aborted" /\ error' = "AttributeError"
    /\ UNCHANGED <<fixerVars, run, disk, completed_providers, i, scrapeVars, result, histVars>>

(* the file after the first n tokens of text were written over old *)
WrittenOver(old, text, n) ==
    [j \in 1..(IF Len(old) > n THEN Len(old) ELSE n) |->
        IF j <= n THEN text[j] ELSE old[j]]

(* lines 271-279: json.dump, close, cooldown *)
DumpCheckpoint ==
    /\ pc = "ckpt_dump"
    /\ ckptFile' = WrittenOver(ckptFile, Payload, Len(Payload))
    /\ recorded' = recorded \cup {providers[i]}
    /\ i' = i + 1 /\ result' = NoResult
    /\ steps' = Append(steps, "sleep")
    /\ pc' = "loop"
    /\ UNCHANGED <<fixerVars, run, error, ckptExists, outputs, chrome, completed_providers,
                   total_games, successful_providers, scrapeVars,
                   loaded, attempts, failed, failedPrev, preWrite, pending>>

----------------------------------------------------------------------------
(* The process is killed from outside (section 5: cancellation is process  *)
(* termination).  Its memory is gone; a kill inside a file write leaves    *)
(* the part of the file written so far.                                    *)

Running == pc \notin {"done", "aborted", "killed"}

MemoryGone ==
    /\ completed_providers' = EmptyList
    /\ total_games' = 0 /\ successful_providers' = 0
    /\ driver' = "none" /\ page' = NoPage /\ click_count' = 0
    /\ k' = 0 /\ games' = <<>>
    /\ result' = NoResult /\ i' = 1

(* what the model remembers of a run only while it lasts *)
RunForgotten ==
    /\ loaded' = {} /\ attempts' = [n \in 1..NumTargets |-> 0]
    /\ recorded' = {} /\ steps' = <<>>

OutputBeingWritten ==
    IF pc = "returned" /\ result.success THEN "txt"
    ELSE IF pc = "save_json" THEN "json"
    ELSE IF pc = "save_html" THEN "html"
    ELSE "none"

Kill ==
    /\ Running
    /\ pc' = "killed" /\ MemoryGone /\ RunForgotten
    /\ UNCHANGED <<fixerVars, run, error, disk, failed, failedPrev, preWrite, pending>>

KillInOutputWrite ==
    /\ Running /\ OutputBeingWritten # "none"
    /\ outputs' = [outputs EXCEPT ![i][OutputBeingWritten] = "partial"]
    /\ pc' = "killed" /\ MemoryGone /\ RunForgotten
    /\ UNCHANGED <<fixerVars, run, error, ckptExists, ckptFile, chrome, failed, failedPrev, preWrite, pending>>

KillInCheckpointWrite ==
    /\ pc = "ckpt_dump"
    /\ \E n \in 1..(Len(Payload) - 1) :
          ckptFile' = WrittenOver(ckptFile, Payload, n)
    /\ pc' = "killed" /\ MemoryGone /\ RunForgotten
    /\ UNCHANGED <<fixerVars, run, error, ckptExists, outputs, chrome, failed, failedPrev, preWrite, pending>>

(* the next invocation of the script on the same working directory *)
Restart ==
    /\ ~Running /\ run < MaxRuns
    /\ run' = run + 1 /\ pc' = "load"
    /\ MemoryGone /\ RunForgotten /\ error' = ""
    /\ failedPrev' = failed /\ failed' = {}
    /\ preWrite' = <<ckptExists, ckptFile>> /\ pending' = <<>>
    /\ UNCHANGED <<fixerVars, disk>>

----------------------------------------------------------------------------
(* The pages *)

GoodAnchor == [raises |-> FALSE, alt |-> "Sweet Bonanza", src |-> "u", href |-> "u"]

AnchorKinds ==
    { [raises |-> TRUE, alt |-> "", src |-> "", href |-> ""] }
      \cup [raises : {FALSE}, alt : {"", "Sweet Bonanza"}, src : {"", "u"}, href : {"u"}]

SeqsUpTo(S, n) == UNION { [1..m -> S] : m \in 0..n }

(* pages of the batch runs: no anchor or MaxAnchors good ones, no Load More *)
BatchPages ==
    { [avail |-> 0, anchors |-> [j \in 1..n |-> GoodAnchor]] : n \in {0, MaxAnchors} }

(* pages for scrape_single_provider() alone: the button offered never,    *)
(* a few times, up to the limit and beyond it                              *)
ExtractPages ==
    { [avail |-> a, anchors |-> as] :
        a \in {0, 1, SafetyLimit - 1, SafetyLimit, SafetyLimit + 1},
        as \in SeqsUpTo(AnchorKinds, MaxAnchors) }

Next ==
    \/ LoadCheckpoint
    \/ SkipCompleted
    \/ MembershipTypeError
    \/ CloseAllChrome
    \/ Finish
    \/ NewDriver
    \/ NewDriverFails
    \/ \E p \in BatchPages, o \in {"ok"} \cup TryErrors : TryBlock(p, o)
    \/ DriverQuit
    \/ DriverQuitFails
    \/ ReportFailure
    \/ SaveTxt
    \/ SaveJson
    \/ SaveHtml
    \/ OpenCheckpoint
    \/ AppendAttributeError
    \/ DumpCheckpoint
    \/ Kill
    \/ KillInOutputWrite
    \/ KillInCheckpointWrite
    \/ Restart

Spec == Init /\ [][Next]_vars

(* one call of scrape_single_provider(), from line 39 to its return *)
InitExtract ==
    /\ run = 1 /\ pc = "chrome"
    /\ ckptExists = FALSE /\ ckptFile = <<>>
    /\ outputs = [n \in 1..NumTargets |-> NoFiles]
    /\ chrome = 0
    /\ FreshMain /\ FreshHist
    /\ failedPrev = {}
    /\ preWrite = <<ckptExists, ckptFile>>
    /\ pending = <<>>
    /\ steps = <<"cleanup">>
    /\ FixerOff

NextExtract ==
    \/ NewDriver
    \/ NewDriverFails
    \/ \E p \in ExtractPages : DriverGet(p)
    \/ DriverGetFails
    \/ ClickLoadMore
    \/ LoadMoreGone
    \/ SafetyLimitReached
    \/ FindAnchors
    \/ FindAnchorsFails
    \/ ExtractAnchor
    \/ ExtractAnchorFails
    \/ ReturnSuccess
    \/ PageSourceFails
    \/ DriverQuit
    \/ DriverQuitFails

SpecExtract == InitExtract /\ [][NextExtract]_vars

----------------------------------------------------------------------------
(* Properties of the batch runs (Spec)                                     *)

Targets == 1..NumTargets
FileNames == NamesOf(ckptExists, ckptFile)
Processing == pc \in {"chrome", "get", "finally", "returned",
                      "save_json", "save_html", "ckpt_open", "ckpt_dump"}

(* C1: idempotent resume.  A provider whose name the run read from the     *)
(* checkpoint, or recorded itself, is not processed in that run: no step   *)
(* asks for a browser session for it, writes one of its output files or    *)
(* puts the run into any stage of processing it.                           *)
C1_IdempotentResume ==
    [][\A n \in Targets :
          providers[n] \in loaded \cup recorded =>
            /\ outputs'[n] = outputs[n]
            /\ attempts'[n] <= attempts[n]
            /\ ~(Processing' /\ i' = n)]_vars

(* a second run stands behind a provider it skipped as already completed *)
C1_Witness ==
    /\ run = 2 /\ pc = "loop" /\ i = 2
    /\ providers[1] \in loaded /\ attempts[1] = 0

(* C2: checkpoint write atomicity.  After a kill the checkpoint file holds *)
(* a complete state, the one before the write or the new one, and every    *)
(* name an earlier write recorded is still in it.                          *)
C2_AtomicWrite ==
    (pc = "killed" /\ preWrite[1] /\ JsonLoad(preWrite[2]).ok) =>
        /\ ckptFile \in {preWrite[2], pending}
        /\ NamesOf(preWrite[1], preWrite[2]) \subseteq FileNames

(* C3: a checkpoint file that parses is the file as it was before the last *)
(* write began or the text that write set out to write, whatever the point *)
(* at which a run was killed; and a run that finds a file that does not    *)
(* parse starts from the empty list.                                       *)
C3_NoPartialState ==
    /\ [](ckptExists /\ JsonLoad(ckptFile).ok => ckptFile \in {preWrite[2], pending})
    /\ [][pc = "load" /\ pc' = "loop" /\ ~JsonLoad(ckptFile).ok
            => completed_providers' = EmptyList]_vars

(* a run has started from scratch on a file torn by a kill *)
C3_Witness ==
    /\ run = 2 /\ pc = "loop"
    /\ ckptFile # <<>> /\ ~JsonLoad(ckptFile).ok
    /\ completed_providers = EmptyList

(* C4: the persisted list only grows.  Outside a write in progress, the    *)
(* file holds every name the run read at its start and every name it has   *)
(* written since, so a run that ends leaves a superset of what it found.   *)
C4_AppendOnly ==
    pc \notin {"load", "ckpt_dump", "killed"} =>
        (loaded \cup recorded) \subseteq FileNames

(* a resumed run has ended after adding a name to the names it read *)
C4_Witness ==
    /\ run = 2 /\ pc = "done"
    /\ loaded # {} /\ recorded # {}

(* C5: loading is never fatal.  Whatever the file holds that is no list of *)
(* names, the run starts from the empty list and no TypeError or           *)
(* AttributeError on the loaded value ends it.                             *)
C5_LoadNeverFatal ==
    /\ (pc = "loop" /\ loaded = {} /\ recorded = {}) => completed_providers = EmptyList
    /\ error \notin {"TypeError", "AttributeError"}

(* C6: a failure of a provider's browser session, at its start or release  *)
(* included, never ends the run.                                           *)
C6_FailureContained ==
    ~(pc = "aborted" /\ error = "WebDriverException")

(* C7: a provider whose result is a failure leaves the checkpoint file and *)
(* the output files as they were, is given one session at most in the run, *)
(* is not in completed_providers, and is not skipped by the next run.      *)
C7_FailedTarget ==
    /\ [](\A n \in Targets : attempts[n] <= 1)
    /\ [](\A n \in failed :
            Iterable(completed_providers) => ~Contains(completed_providers, providers[n]))
    /\ [](\A n \in failed : providers[n] \notin FileNames)
    /\ [][(pc \in {"chrome", "get"} \/ (pc \in {"finally", "returned"} /\ ~result.success))
            => /\ ckptExists' = ckptExists /\ ckptFile' = ckptFile
               /\ outputs' = outputs]_vars
    /\ [][(pc = "loop" /\ pc' = "loop" /\ i' = i + 1) => i \notin failedPrev]_vars

(* the next run has a session for a provider that failed in the run before *)
C7_Witness ==
    /\ run = 2 /\ pc = "get" /\ i \in failedPrev /\ attempts[i] = 1

----------------------------------------------------------------------------
(* Properties of one call of scrape_single_provider() (SpecExtract)        *)

(* the try block taken step by step returns what TryResult says *)
TryBlockSummary ==
    pc = "finally" => result \in {TryResult(page, o) : o \in {"ok"} \cup TryErrors}

(* C8: expansion bound.  The loop makes 50 clicks at most; each of its     *)
(* iterations adds one click; it is left after exactly 50 clicks when the  *)
(* button is there every time, and with the clicks made so far as soon as  *)
(* the button is not found.                                                *)
C8_ExpansionBound ==
    /\ [](click_count <= 50 /\ result.click_count <= 50)
    /\ [](pc \in {"find", "anchors"} =>
            click_count = IF page.avail >= 50 THEN 50 ELSE page.avail)
    /\ [][pc = "expand" /\ pc' = "expand" => click_count' = click_count + 1]_vars
    /\ [][pc = "expand" /\ pc' # "expand" => click_count' = click_count]_vars

(* the loop was left at the limit on a page that still offers the button *)
C8_Witness ==
    /\ pc = "find" /\ click_count = 50 /\ page.avail > 50

(* the anchors of the page whose extraction does not raise *)
Harvested == {n \in 1..Len(page.anchors) : ~page.anchors[n].raises}

(* C9: partial harvest.  A result built after the anchor loop is a success *)
(* whatever anchors raised; its records are those of the anchors that did  *)
(* not raise, in document order, each with its position among all anchors  *)
(* as index.                                                               *)
C9_PartialHarvest ==
    (pc = "finally" /\ result.error # "page_source" /\ k > Len(page.anchors)) =>
        /\ result.success
        /\ Len(result.games) = Cardinality(Harvested)
        /\ \A j \in 1..Len(result.games) :
              /\ result.games[j].index \in Harvested
              /\ result.games[j].image_url = page.anchors[result.games[j].index].src
              /\ j > 1 => result.games[j - 1].index < result.games[j].index

(* of two anchors the first raised: one record, with index 2 *)
C9_Witness ==
    /\ pc = "finally" /\ result.success
    /\ Len(page.anchors) = 2 /\ page.anchors[1].raises /\ ~page.anchors[2].raises
    /\ Len(result.games) = 1

(* C10: a result that is a failure has an error, no record and no click,   *)
(* whatever the try block had gathered when the exception was raised.      *)
C10_FailureIsEmpty ==
    (pc \in {"finally", "returned"} /\ ~result.success) =>
        /\ result.error \in TryErrors
        /\ result.games = <<>>
        /\ result.click_count = 0

(* reading the page source failed after clicks and records were gathered *)
C10_Witness ==
    /\ pc = "finally" /\ ~result.success /\ result.error = "page_source"
    /\ click_count > 0 /\ games # <<>>

----------------------------------------------------------------------------
(* Properties of the browser sessions (Spec)                               *)

(* the stages of a run that lie inside a call of scrape_single_provider() *)
InCall == {"get", "expand", "find", "anchors", "finally"}

(* C11: session isolation.  The session a call of scrape_single_provider() *)
(* opened is released when the call has returned, with a success or with a *)
(* failure; so the run holds no session outside a call, and none when it   *)
(* opens the session of the next provider.                                 *)
C11_SessionIsolation ==
    /\ [](pc \notin InCall \cup {"aborted"} => driver = "none")
    /\ [][driver' = "open" /\ pc # pc' => driver = "none" \/ pc \in InCall]_vars

(* the second provider has its session after the first one's call failed *)
C11_Witness ==
    /\ pc = "get" /\ i = 2 /\ driver = "open"
    /\ 1 \in failed /\ attempts[1] = 1

----------------------------------------------------------------------------
(* Properties of the checkpoint counters (Spec)                            *)

(* the number that follows the key in a checkpoint file this program wrote *)
CounterIn(f, key) == f[(CHOOSE j \in 1..Len(f) : f[j].k = key) + 1].v

(* the records in the json files of the providers named in names *)
RECURSIVE RecordsOf(_)
RecordsOf(names) ==
    IF names = {} THEN 0
    ELSE LET n == CHOOSE m \in names : TRUE IN
         outputs[n].total_games + RecordsOf(names \ {n})

(* C17: the checkpoint counters are cumulative.  Once a run, first or      *)
(* resumed, has completed a checkpoint write, the file's                   *)
(* successful_providers is the number of names in its list and its         *)
(* total_games_so_far the number of records of all the providers named.    *)
C17_CumulativeCounters ==
    (recorded # {} /\ pc # "ckpt_dump") =>
        /\ CounterIn(ckptFile, "successful_providers") = Cardinality(FileNames)
        /\ CounterIn(ckptFile, "total_games_so_far") = RecordsOf(FileNames)

----------------------------------------------------------------------------
(* Properties of the order of output files and checkpoint (Spec)           *)

Complete(n) ==
    /\ outputs[n].txt = "complete"
    /\ outputs[n].json = "complete"
    /\ outputs[n].html = "complete"

(* the run is between save_provider_data() and the end of json.dump *)
OutputsDone == pc \in {"ckpt_open", "ckpt_dump"}

(* C21: outputs precede the checkpoint.  In every state, after any kill    *)
(* and in any later run, a provider whose name the checkpoint file holds   *)
(* has its txt, json and html file written to the end; a kill after the    *)
(* output files and before the end of the checkpoint write leaves the name *)
(* out of the file; and a run passes over no provider whose name the file  *)
(* does not hold, so the next run processes that provider again, writing   *)
(* its output files anew.                                                  *)
C21_OutputsPrecedeCheckpoint ==
    /\ [](\A n \in Targets : providers[n] \in FileNames => Complete(n))
    /\ [][OutputsDone /\ pc' = "killed" => providers[i] \notin NamesOf(ckptExists', ckptFile')]_vars
    /\ [][pc = "loop" /\ pc' = "loop" /\ i' = i + 1 => providers[i] \in FileNames]_vars
    /\ [][\A n \in Targets : outputs'[n] # outputs[n] =>
            /\ n = i /\ providers[n] \notin FileNames
            /\ pc \in {"returned", "save_json", "save_html"}]_vars

(* the run after a kill between save_provider_data() and the checkpoint    *)
(* write is writing the provider's files again                             *)
C21_Witness ==
    /\ run = 2 /\ pc = "save_json" /\ i = 1
    /\ ~ckptExists
    /\ outputs[1].json = "complete" /\ outputs[1].html = "complete"

----------------------------------------------------------------------------
(* Properties of the end of a run (Spec)                                   *)

Skipped(n) == providers[n] \in loaded
Succeeded(n) == providers[n] \in recorded
Failed(n) == n \in failed

ClassifiedOnce(n) ==
    /\ attempts[n] <= 1
    /\ Skipped(n) \/ Succeeded(n) \/ Failed(n)
    /\ ~(Skipped(n) /\ Succeeded(n))
    /\ ~(Skipped(n) /\ Failed(n))
    /\ ~(Succeeded(n) /\ Failed(n))

(* the run has ended by itself with every call of scrape_single_provider  *)
(* having returned                                                         *)
EndedAfterReturns ==
    \/ pc = "done"
    \/ pc = "aborted" /\ error # "WebDriverException"

(* C22: a run in which every call of scrape_single_provider returns ends   *)
(* only after the whole list: when it has ended it has passed the last     *)
(* provider, has taken them one by one in list order, each provider is     *)
(* exactly one of skipped, succeeded and failed and was given no second    *)
(* attempt, and the run has reached the final summary.                     *)
C22_RunTerminates ==
    /\ i \in 1..(NumTargets + 1)
    /\ pc # "killed" =>
          \A n \in Targets : n > i => attempts[n] = 0 /\ ~Succeeded(n) /\ ~Failed(n)
    /\ EndedAfterReturns =>
          /\ pc = "done" /\ i = NumTargets + 1
          /\ \A n \in Targets : ClassifiedOnce(n)

----------------------------------------------------------------------------
(* Properties of the order of cleanup, session and cooldown (Spec)         *)

Attempt == <<"cleanup", "open", "quit", "sleep">>
Has(seq, e) == \E j \in 1..Len(seq) : seq[j] = e
Before(seq, a, b) ==
    \A j \in 1..Len(seq) : seq[j] = b => \E h \in 1..(j - 1) : seq[h] = a

(* C18: whenever the loop moves on from a provider, skipped or attempted,  *)
(* close_all_chrome() has run for it; and for an attempted one the cleanup *)
(* came before the session was opened and the cooldown after it was        *)
(* closed, on success and on failure.                                      *)
C18_CleanupBetweenTargets ==
    [][i' = i + 1 =>
          /\ Has(steps', "cleanup")
          /\ Has(steps', "open") =>
                /\ Before(steps', "cleanup", "open")
                /\ Has(steps', "sleep") /\ Before(steps', "quit", "sleep")]_vars

(* C18 as amended: the same for the attempted providers only; the loop     *)
(* moves on from a skipped provider with neither cleanup nor cooldown.     *)
C18_CleanupBeforeAttempt ==
    /\ [](steps = <<"skip">> \/ \E n \in 0..Len(Attempt) : steps = SubSeq(Attempt, 1, n))
    /\ [][i' = i + 1 =>
            IF pc = "loop" THEN steps' = <<"skip">>
            ELSE steps' = Attempt]_vars
    /\ [][driver = "none" /\ driver' = "open" => steps' = <<"cleanup", "open">>]_vars

(* the loop has moved on from a provider whose attempt failed, and from a  *)
(* provider it skipped before that                                         *)
C18_Witness ==
    /\ pc = "loop" /\ i = 3 /\ steps = Attempt
    /\ 1 \in loaded /\ 2 \in failed

----------------------------------------------------------------------------
(* url_quality_fixer.py                                                    *)
(*                                                                         *)
(* A text (URL, name, path) is the sequence of its pieces.  The pieces of  *)
(* a URL are chosen so that the two patterns of fix_image_url_quality()    *)
(* can occur in a URL only as whole pieces.                                *)

UrlPieces == {"x", "width=195,height=260,", "quality=20", "quality=90",
              ",blur=150", ",blur=0", ",fit=cover"}

BadPattern == <<"quality=20", ",blur=150">>
GoodPattern == <<"quality=90", ",blur=0">>
CoverPattern == <<"width=195,height=260,", "quality=90", ",blur=0", ",fit=cover">>
ContainPattern == <<"width=400,height=600,", "quality=95", ",blur=0", ",fit=contain">>

(* str.replace(old, new): the occurrences of old, taken from the left and  *)
(* not overlapping, each replaced by new                                   *)
RECURSIVE StrReplace(_, _, _)
StrReplace(s, old, new) ==
    IF Len(s) < Len(old) THEN s
    ELSE IF SubSeq(s, 1, Len(old)) = old
         THEN new \o StrReplace(SubSeq(s, Len(old) + 1, Len(s)), old, new)
         ELSE <<Head(s)>> \o StrReplace(Tail(s), old, new)

(* `pat in s` *)
OccursAt(s, pat, j) ==
    /\ j + Len(pat) - 1 <= Len(s)
    /\ SubSeq(s, j, j + Len(pat) - 1) = pat
Occurs(s, pat) == \E j \in 1..Len(s) : OccursAt(s, pat, j)

(* the two rules applied the other way round *)
fix_image_url_quality_reversed(url) ==
    IF url = <<>> THEN url
    ELSE StrReplace(StrReplace(url, CoverPattern, ContainPattern),
                    BadPattern, GoodPattern)

(* lines 21-33 *)
fix_image_url_quality(url) ==
    IF url = <<>> THEN url
    ELSE StrReplace(StrReplace(url, BadPattern, GoodPattern),
                    CoverPattern, ContainPattern)

(* the scraper is not run *)
ScraperOff ==
    /\ run = 0 /\ pc = "off"
    /\ ckptExists = FALSE /\ ckptFile = <<>>
    /\ outputs = [n \in 1..NumTargets |-> NoFiles]
    /\ chrome = 0
    /\ FreshMain /\ FreshHist
    /\ failedPrev = {}
    /\ preWrite = <<ckptExists, ckptFile>>
    /\ pending = <<>>
    /\ steps = <<>>

(* line 113: fixed_image_url = fix_image_url_quality(original_image_url) *)
FixUrl ==
    /\ fixer_pc = "url"
    /\ fixed_image_url' = fix_image_url_quality(original_image_url)
    /\ fixer_pc' = "fixed"
    /\ UNCHANGED <<scraperVars, fixer_run, mainFixerVars, provider_name, data,
                   gi, original_image_url, image_path, processed_games,
                   successful_downloads, bad_quality_fixed, image_files, http_gets>>

(* fix_image_url_quality() on its own, applied to any URL *)
Urls == SeqsUpTo(UrlPieces, MaxUrlLen)

InitNormalize ==
    /\ ScraperOff
    /\ fixer_pc = "url" /\ fixer_run = 1
    /\ FreshFixerMain
    /\ provider_name = <<>> /\ data = NoData /\ gi = 0
    /\ original_image_url \in Urls
    /\ fixed_image_url = <<>> /\ image_path = <<>>
    /\ processed_games = <<>>
    /\ successful_downloads = 0 /\ bad_quality_fixed = 0
    /\ image_files = {} /\ http_gets = 0

NextNormalize == FixUrl

SpecNormalize == InitNormalize /\ [][NextNormalize]_vars

----------------------------------------------------------------------------
(* sanitize_filename(), lines 35-42, on a name as the sequence of its      *)
(* characters                                                              *)

InvalidChars == {"<", ">", ":", "\"", "/", "\\", "|", "?", "*"}
Whitespace == {" ", "\t", "\n"}

(* lines 38-39 *)
Underscored(s) ==
    [j \in 1..Len(s) |-> IF s[j] \in InvalidChars THEN "_" ELSE s[j]]

(* re.sub(r'\s+', ' ', s) *)
RECURSIVE Collapsed(_)
Collapsed(s) ==
    IF s = <<>> THEN <<>>
    ELSE IF Head(s) \notin Whitespace THEN <<Head(s)>> \o Collapsed(Tail(s))
    ELSE IF Len(s) > 1 /\ s[2] \in Whitespace THEN Collapsed(Tail(s))
    ELSE <<" ">> \o Collapsed(Tail(s))

(* str.strip(chars) *)
RECURSIVE Stripped(_, _)
Stripped(s, chars) ==
    IF s = <<>> THEN s
    ELSE IF Head(s) \in chars THEN Stripped(Tail(s), chars)
    ELSE IF s[Len(s)] \in chars THEN Stripped(SubSeq(s, 1, Len(s) - 1), chars)
    ELSE s

sanitize_filename(filename) ==
    Stripped(Stripped(Collapsed(Underscored(filename)), Whitespace), {"."})

(* line 123 *)
FileName(provider, game_name) ==
    sanitize_filename(provider) \o <<" ", "-", " ">>
        \o sanitize_filename(game_name) \o <<".webp">>

(* lines 95 and 126: os.path.join *)
ImagePath(provider, game_name) ==
    <<"Final_Quality_Fixed", "/">> \o provider \o <<"/">>
        \o FileName(provider, game_name)

----------------------------------------------------------------------------
(* process_provider_with_fixed_urls(), lines 75-151, step by step.  An     *)
(* image file is its path, the URL its bytes were fetched from and whether *)
(* it was written to its end.                                              *)

Game == data.games[gi]

(* a test that never finds the file *)
PathExistsNever(path) == FALSE

(* line 129: os.path.exists(image_path) *)
PathExists(path) == \E f \in image_files : f.path = path

(* lines 138-146: the dict appended for the record at hand *)
FetchedAsset ==
    [file_name |-> FileName(provider_name, Game.name),
     game_title |-> Game.name,
     game_provider |-> provider_name,
     game_url |-> Game.game_link,
     original_url |-> original_image_url,
     fixed_url |-> fixed_image_url,
     local_path |-> image_path]

(* lines 138-146, and on to the next record *)
AppendAsset ==
    /\ processed_games' = Append(processed_games, FetchedAsset)
    /\ gi' = gi + 1
    /\ original_image_url' = <<>> /\ fixed_image_url' = <<>> /\ image_path' = <<>>
    /\ fixer_pc' = "game"

(* lines 79-92: the file does not load, or it has no games *)
ReturnEmpty ==
    /\ fixer_pc = "read"
    /\ ~data.ok \/ data.games = <<>>
    /\ fixer_pc' = "returned"
    /\ UNCHANGED <<scraperVars, fixer_run, mainFixerVars, processVars,
                   image_files, http_gets>>

(* lines 94-103 *)
StartLoop ==
    /\ fixer_pc = "read"
    /\ data.ok /\ data.games # <<>>
    /\ successful_downloads' = 0 /\ processed_games' = <<>>
    /\ bad_quality_fixed' = 0
    /\ gi' = 1
    /\ fixer_pc' = "game"
    /\ UNCHANGED <<scraperVars, fixer_run, mainFixerVars, provider_name, data,
                   original_image_url, fixed_image_url, image_path,
                   image_files, http_gets>>

(* lines 108-110: `if not original_image_url: continue` *)
NoImageUrl ==
    /\ fixer_pc = "game" /\ gi <= Len(data.games)
    /\ Game.image_url = <<>>
    /\ gi' = gi + 1
    /\ UNCHANGED <<scraperVars, fixer_pc, fixer_run, mainFixerVars, provider_name,
                   data, original_image_url, fixed_image_url, image_path,
                   processed_games, successful_downloads, bad_quality_fixed,
                   image_files, http_gets>>

(* lines 104-106 *)
TakeRecord ==
    /\ fixer_pc = "game" /\ gi <= Len(data.games)
    /\ Game.image_url # <<>>
    /\ original_image_url' = Game.image_url
    /\ fixer_pc' = "url"
    /\ UNCHANGED <<scraperVars, fixer_run, mainFixerVars, provider_name, data, gi,
                   fixed_image_url, image_path, processed_games,
                   successful_downloads, bad_quality_fixed, image_files, http_gets>>

(* lines 116-126 *)
DerivePath ==
    /\ fixer_pc = "fixed"
    /\ bad_quality_fixed' =
          IF Occurs(original_image_url, BadPattern)
          THEN bad_quality_fixed + 1 ELSE bad_quality_fixed
    /\ image_path' = ImagePath(provider_name, Game.name)
    /\ fixer_pc' = "exists"
    /\ UNCHANGED <<scraperVars, fixer_run, mainFixerVars, provider_name, data, gi,
                   original_image_url, fixed_image_url, processed_games,
                   successful_downloads, image_files, http_gets>>

(* lines 129-131 and 138-146 *)
AlreadyExists ==
    /\ fixer_pc = "exists"
    /\ PathExists(image_path)
    /\ successful_downloads' = successful_downloads + 1
    /\ AppendAsset
    /\ UNCHANGED <<scraperVars, fixer_run, mainFixerVars, provider_name, data,
                   bad_quality_fixed, image_files, http_gets>>

(* lines 132-134 and 47-50: requests.get(image_url, ...) *)
HttpGet ==
    /\ fixer_pc = "exists"
    /\ ~PathExists(image_path)
    /\ http_gets' = http_gets + 1
    /\ fixer_pc' = "get"
    /\ UNCHANGED <<scraperVars, fixer_run, mainFixerVars, processVars, image_files>>

(* a failure that leaves the record out of the list *)
DownloadFailsOmitted ==
    /\ fixer_pc = "get"
    /\ gi' = gi + 1
    /\ original_image_url' = <<>> /\ fixed_image_url' = <<>> /\ image_path' = <<>>
    /\ fixer_pc' = "game"
    /\ UNCHANGED <<scraperVars, fixer_run, mainFixerVars, provider_name, data,
                   processed_games, successful_downloads, bad_quality_fixed,
                   image_files, http_gets>>

(* a failure that ends the loop *)
DownloadFailsAborts ==
    /\ fixer_pc = "get"
    /\ processed_games' = Append(processed_games, FetchedAsset)
    /\ gi' = Len(data.games) + 1
    /\ original_image_url' = <<>> /\ fixed_image_url' = <<>> /\ image_path' = <<>>
    /\ fixer_pc' = "game"
    /\ UNCHANGED <<scraperVars, fixer_run, mainFixerVars, provider_name, data,
                   successful_downloads, bad_quality_fixed, image_files, http_gets>>

(* lines 50-67 raise, lines 71-73 return False; then lines 138-146 *)
DownloadFails ==
    /\ fixer_pc = "get"
    /\ AppendAsset
    /\ UNCHANGED <<scraperVars, fixer_run, mainFixerVars, provider_name, data,
                   successful_downloads, bad_quality_fixed, image_files, http_gets>>

(* image.save(output_path, 'WEBP', ...) to its end, or to some point *)
Saved(whole) ==
    {f \in image_files : f.path # image_path}
        \cup {[path |-> image_path, url |-> fixed_image_url, whole |-> whole]}

(* lines 51-69 and 135, then lines 138-146 *)
ImageSaved ==
    /\ fixer_pc = "get"
    /\ image_files' = Saved(TRUE)
    /\ successful_downloads' = successful_downloads + 1
    /\ AppendAsset
    /\ UNCHANGED <<scraperVars, fixer_run, mainFixerVars, provider_name, data,
                   bad_quality_fixed, http_gets>>

(* lines 148-151 *)
ReturnProcessed ==
    /\ fixer_pc = "game" /\ gi > Len(data.games)
    /\ gi' = 0
    /\ fixer_pc' = "returned"
    /\ UNCHANGED <<scraperVars, fixer_run, mainFixerVars, provider_name, data,
                   original_image_url, fixed_image_url, image_path,
                   processed_games, successful_downloads, bad_quality_fixed,
                   image_files, http_gets>>

(* the script is killed from outside; a kill inside image.save() leaves    *)
(* the part of the file written so far                                     *)
FixerRunning == fixer_pc \notin {"off", "returned", "done", "killed"}

FixerMemoryGone ==
    /\ gi' = 0
    /\ original_image_url' = <<>> /\ fixed_image_url' = <<>> /\ image_path' = <<>>
    /\ processed_games' = <<>>
    /\ successful_downloads' = 0 /\ bad_quality_fixed' = 0

FixerKill ==
    /\ FixerRunning
    /\ fixer_pc' = "killed" /\ FixerMemoryGone
    /\ UNCHANGED <<scraperVars, fixer_run, mainFixerVars, provider_name, data,
                   image_files, http_gets>>

KillInImageSave ==
    /\ fixer_pc = "get"
    /\ image_files' = Saved(FALSE)
    /\ fixer_pc' = "killed" /\ FixerMemoryGone
    /\ UNCHANGED <<scraperVars, fixer_run, mainFixerVars, provider_name, data,
                   http_gets>>

(* the script is run again on the same directories *)
ProcessAgain ==
    /\ fixer_pc \in {"returned", "killed"} /\ fixer_run < MaxRuns
    /\ fixer_run' = fixer_run + 1
    /\ fixer_pc' = "read" /\ FixerMemoryGone
    /\ UNCHANGED <<scraperVars, mainFixerVars, provider_name, data,
                   image_files, http_gets>>

(* the json files: two names that differ in a character Windows forbids    *)
(* and a third one; no image URL, one with the bad pattern, a plain one    *)
GameNames == {<<"a", "/">>, <<"a", ":">>, <<"b">>}
ImageUrls == {<<>>, <<"x", "quality=20", ",blur=150">>, <<"y">>}
GameKinds == [name : GameNames, image_url : ImageUrls, game_link : {<<"l">>}]
JsonFiles == {NoData} \cup {[ok |-> TRUE, games |-> gs] : gs \in SeqsUpTo(GameKinds, MaxAnchors)}

InitAssets ==
    /\ ScraperOff
    /\ fixer_pc = "read" /\ fixer_run = 1
    /\ FreshFixerMain
    /\ provider_name = <<"P">>
    /\ data \in JsonFiles
    /\ ProcessIdle
    /\ image_files = {} /\ http_gets = 0

NextAssets ==
    \/ ReturnEmpty
    \/ StartLoop
    \/ NoImageUrl
    \/ TakeRecord
    \/ FixUrl
    \/ DerivePath
    \/ AlreadyExists
    \/ HttpGet
    \/ DownloadFails
    \/ ImageSaved
    \/ ReturnProcessed
    \/ FixerKill
    \/ KillInImageSave
    \/ ProcessAgain

SpecAssets == InitAssets /\ [][NextAssets]_vars

----------------------------------------------------------------------------
(* main() and create_metadata_files() of url_quality_fixer.py, lines       *)
(* 153-234, around the calls of process_provider_with_fixed_urls()         *)

(* lines 189-191: there is no New_Providers_data directory *)
NoInputDirectory ==
    /\ fixer_pc = "main" /\ fixer_providers = <<>>
    /\ fixer_pc' = "done"
    /\ UNCHANGED <<scraperVars, fixer_run, mainFixerVars, processVars,
                   image_files, http_gets>>

(* lines 193-213: the directories with a json file are listed *)
StartMain ==
    /\ fixer_pc = "main"
    /\ all_games_data' = <<>> /\ pi' = 1
    /\ fixer_pc' = "provider"
    /\ UNCHANGED <<scraperVars, fixer_run, fixer_providers, metadata, processVars,
                   image_files, http_gets>>

(* lines 216-217: the call for the next provider *)
CallProcess ==
    /\ fixer_pc = "provider" /\ pi <= Len(fixer_providers)
    /\ provider_name' = fixer_providers[pi].name
    /\ data' = fixer_providers[pi].data
    /\ fixer_pc' = "read"
    /\ UNCHANGED <<scraperVars, fixer_run, mainFixerVars, recordVars,
                   processed_games, successful_downloads, bad_quality_fixed,
                   image_files, http_gets>>

(* line 218: all_games_data.extend(games_data) *)
ExtendAll ==
    /\ fixer_pc = "returned"
    /\ all_games_data' = all_games_data \o processed_games
    /\ pi' = pi + 1
    /\ processed_games' = <<>>
    /\ successful_downloads' = 0 /\ bad_quality_fixed' = 0
    /\ fixer_pc' = "provider"
    /\ UNCHANGED <<scraperVars, fixer_run, fixer_providers, metadata,
                   provider_name, data, recordVars, image_files, http_gets>>

(* a count of the providers that were processed *)
TotalProvidersListed(all) == Len(fixer_providers)

(* line 171: len(set(game['game_provider'] for game in all_games_data)) *)
TotalProviders(all) == Cardinality({all[j].game_provider : j \in 1..Len(all)})

(* lines 220-221 and 153-179: games_metadata.json *)
CreateMetadata ==
    /\ fixer_pc = "provider" /\ pi > Len(fixer_providers)
    /\ metadata' = [written |-> TRUE,
                    total_games |-> Len(all_games_data),
                    total_providers |-> TotalProviders(all_games_data),
                    games |-> all_games_data]
    /\ fixer_pc' = "done"
    /\ UNCHANGED <<scraperVars, fixer_run, fixer_providers, pi, all_games_data,
                   processVars, image_files, http_gets>>

(* the provider directories: any number of them, the json file of each     *)
(* unreadable or with records with and without an image URL                *)
DirName(n) == <<"P", ToString(n)>>
MainKinds == [name : {<<"b">>}, image_url : {<<>>, <<"y">>}, game_link : {<<"l">>}]
MainFiles == {NoData} \cup {[ok |-> TRUE, games |-> gs] : gs \in SeqsUpTo(MainKinds, MaxAnchors)}
ProviderLists ==
    UNION { { [n \in 1..m |-> [name |-> DirName(n), data |-> ds[n]]] :
                ds \in [1..m -> MainFiles] } : m \in 0..NumTargets }

InitFixer ==
    /\ ScraperOff
    /\ fixer_pc = "main" /\ fixer_run = 1
    /\ fixer_providers \in ProviderLists
    /\ pi = 0 /\ all_games_data = <<>> /\ metadata = NoMetadata
    /\ provider_name = <<>> /\ data = NoData
    /\ ProcessIdle
    /\ image_files = {} /\ http_gets = 0

NextFixer ==
    \/ NoInputDirectory
    \/ StartMain
    \/ CallProcess
    \/ ReturnEmpty
    \/ StartLoop
    \/ NoImageUrl
    \/ TakeRecord
    \/ FixUrl
    \/ DerivePath
    \/ AlreadyExists
    \/ HttpGet
    \/ DownloadFails
    \/ ImageSaved
    \/ ReturnProcessed
    \/ ExtendAll
    \/ CreateMetadata

SpecFixer == InitFixer /\ [][NextFixer]_vars

----------------------------------------------------------------------------
(* Properties of fix_image_url_quality() (SpecNormalize)                   *)

(* the occurrences of pat in s that cover position j, by their start *)
Covering(s, pat, j) ==
    {h \in 1..j : h + Len(pat) > j /\ OccursAt(s, pat, h)}

(* s with new standing at each place where pat stood, for a pattern that   *)
(* cannot overlap itself and a replacement of its length                   *)
Rewritten(s, pat, new) ==
    [j \in 1..Len(s) |->
        IF Covering(s, pat, j) = {} THEN s[j]
        ELSE new[j - (CHOOSE h \in Covering(s, pat, j) : TRUE) + 1]]

(* C12: for every URL the output of fix_image_url_quality() has no         *)
(* occurrence of "quality=20,blur=150", has "quality=90,blur=0" at each    *)
(* place where it stood and is otherwise equal to the input.               *)
C12_BadPatternRewritten ==
    fixer_pc = "fixed" =>
        /\ ~Occurs(fixed_image_url, BadPattern)
        /\ fixed_image_url = Rewritten(original_image_url, BadPattern, GoodPattern)

(* C12 as amended: the output is the input with "quality=90,blur=0" at     *)
(* each place where the bad pattern stood, and then with                   *)
(* "width=400,height=600,quality=95,blur=0,fit=contain" at each place      *)
(* where "width=195,height=260,quality=90,blur=0,fit=cover" stands after   *)
(* that; it has no occurrence of the bad pattern.                          *)
C12_RulesInOrder ==
    fixer_pc = "fixed" =>
        /\ ~Occurs(fixed_image_url, BadPattern)
        /\ fixed_image_url =
              Rewritten(Rewritten(original_image_url, BadPattern, GoodPattern),
                        CoverPattern, ContainPattern)

(* the first rule has made the text that the second rule rewrites *)
C12_Witness ==
    /\ fixer_pc = "fixed"
    /\ original_image_url =
          <<"width=195,height=260,", "quality=20", ",blur=150", ",fit=cover">>
    /\ fixed_image_url = ContainPattern

----------------------------------------------------------------------------
(* Properties of process_provider_with_fixed_urls() (SpecAssets)           *)

(* the files at the path derived for the record at hand *)
FilesAtPath == {f \in image_files : f.path = image_path}

(* C13: fetch idempotence.  For a record whose derived path exists when    *)
(* it is tested, no requests.get() is made and no file is touched, and the *)
(* step of the run that follows the test appends the record's dict, with   *)
(* that path, to processed_games.                                          *)
C13_FetchIdempotence ==
    [][(fixer_pc = "exists" /\ FilesAtPath # {}) =>
          /\ http_gets' = http_gets
          /\ image_files' = image_files
          /\ fixer_pc' # "killed" =>
                /\ Len(processed_games') = Len(processed_games) + 1
                /\ processed_games'[Len(processed_games')].local_path = image_path
                /\ processed_games'[Len(processed_games')].game_title = Game.name
                /\ SubSeq(processed_games', 1, Len(processed_games)) = processed_games]_vars

(* a second run has passed a record whose image the first run fetched *)
C13_Witness ==
    /\ fixer_run = 2 /\ fixer_pc = "game" /\ gi = 2
    /\ Len(processed_games) = 1 /\ successful_downloads = 1
    /\ http_gets = 1
    /\ \E f \in image_files : f.path = processed_games[1].local_path /\ f.whole

(* the download of the record at hand has failed in this step *)
FailedHere ==
    /\ fixer_pc = "get" /\ fixer_pc' = "game"
    /\ successful_downloads' = successful_downloads

(* the record at hand was skipped as existing or fetched in this step *)
CountedHere ==
    /\ fixer_pc \in {"exists", "get"} /\ fixer_pc' = "game"
    /\ successful_downloads' = successful_downloads + 1

(* the step has put the record at hand at the end of processed_games *)
AppendedHere ==
    /\ Len(processed_games') = Len(processed_games) + 1
    /\ SubSeq(processed_games', 1, Len(processed_games)) = processed_games
    /\ processed_games'[Len(processed_games')].game_title = Game.name
    /\ processed_games'[Len(processed_games')].original_url = Game.image_url
    /\ processed_games'[Len(processed_games')].local_path = image_path

(* C14: a record whose fetch, decode or encode fails is left out of        *)
(* processed_games, a record skipped as existing or fetched is appended,   *)
(* and the loop goes on to the next record after a failure.                *)
C14_FailedRecordOmitted ==
    /\ [][FailedHere => processed_games' = processed_games /\ gi' = gi + 1]_vars
    /\ [][CountedHere => AppendedHere]_vars

(* C14 as amended: a record whose fetch, decode or encode fails is         *)
(* appended like the others, its path naming a file the failure did not    *)
(* write; the loop goes on to the next record.                             *)
C14_FailedRecordAppended ==
    /\ [][FailedHere => AppendedHere /\ image_files' = image_files /\ gi' = gi + 1]_vars
    /\ [][CountedHere => AppendedHere /\ gi' = gi + 1]_vars

(* the first of two records failed and is in the list with no file; the    *)
(* second was fetched                                                      *)
C14_Witness ==
    /\ fixer_run = 1 /\ fixer_pc = "game" /\ gi = 3
    /\ Len(processed_games) = 2 /\ successful_downloads = 1
    /\ \A f \in image_files : f.path # processed_games[1].local_path
    /\ \E f \in image_files : f.path = processed_games[2].local_path

(* the records of the file that have an image URL, by position, and the    *)
(* k-th of them                                                            *)
WithUrl == {j \in 1..Len(data.games) : data.games[j].image_url # <<>>}
NthWithUrl(n) == CHOOSE j \in WithUrl : Cardinality({h \in WithUrl : h <= j}) = n

(* C15: the call returns one dict for each record with a non-empty         *)
(* image_url and none for a record without, in the order of the file; no   *)
(* failed download ends the loop or makes it pass over a later record.     *)
C15_OnePerRecord ==
    /\ fixer_pc = "game" =>
          Len(processed_games) = Cardinality({j \in WithUrl : j < gi})
    /\ fixer_pc = "returned" =>
          /\ Len(processed_games) = Cardinality(WithUrl)
          /\ \A n \in 1..Len(processed_games) :
                /\ processed_games[n].game_title = data.games[NthWithUrl(n)].name
                /\ processed_games[n].original_url = data.games[NthWithUrl(n)].image_url
                /\ processed_games[n].game_provider = provider_name

(* the download of the first record failed, the second record has no image *)
(* URL: the call has returned the one dict of the first                    *)
C15_Witness ==
    /\ fixer_pc = "returned" /\ Len(data.games) = 2
    /\ data.games[2].image_url = <<>>
    /\ Len(processed_games) = 1 /\ successful_downloads = 0
    /\ http_gets = 1

(* C19: existence implies materialized.  In every state, after a kill in   *)
(* image.save() and a new run and for records that derive one path         *)
(* included, a file at the path derived for a record is written to its end *)
(* and holds the image fetched from that record's fixed URL.               *)
C19_ExistenceImpliesMaterialized ==
    \A j \in WithUrl : \A f \in image_files :
        f.path = ImagePath(provider_name, data.games[j].name) =>
            /\ f.whole
            /\ f.url = fix_image_url_quality(data.games[j].image_url)

(* C20: the derived path is collision-free.  Two dicts of processed_games  *)
(* that differ in provider or title differ in local_path.                  *)
C20_CollisionFree ==
    \A m, n \in 1..Len(processed_games) :
        <<processed_games[m].game_provider, processed_games[m].game_title>>
            # <<processed_games[n].game_provider, processed_games[n].game_title>>
        => processed_games[m].local_path # processed_games[n].local_path

----------------------------------------------------------------------------
(* Properties of main() and create_metadata_files() (SpecFixer)            *)

(* the records with an image URL in the file of the n-th provider *)
ResultCount(n) ==
    LET gs == fixer_providers[n].data.games IN
    Cardinality({j \in 1..Len(gs) : gs[j].image_url # <<>>})

RECURSIVE SumOfCounts(_)
SumOfCounts(n) == IF n = 0 THEN 0 ELSE SumOfCounts(n - 1) + ResultCount(n)

(* C16: aggregation completeness.  The export's total_games is the sum of  *)
(* the numbers of dicts the calls returned, provider by provider; its      *)
(* total_providers is the number of different provider names among them;   *)
(* and create_metadata_files() leaves the list it is given as it was.      *)
C16_AggregationComplete ==
    /\ [](metadata.written =>
            /\ metadata.total_games = SumOfCounts(Len(fixer_providers))
            /\ metadata.total_providers =
                  Cardinality({n \in 1..Len(fixer_providers) : ResultCount(n) > 0})
            /\ metadata.games = all_games_data)
    /\ [][fixer_pc = "returned" /\ fixer_pc' = "provider" =>
            Len(all_games_data') = Len(all_games_data) + Len(processed_games)]_vars
    /\ [][metadata' # metadata => all_games_data' = all_games_data]_vars

(* of two providers the first gave two dicts and the second none *)
C16_Witness ==
    /\ fixer_pc = "done" /\ metadata.written
    /\ Len(fixer_providers) = 2
    /\ metadata.total_games = 2 /\ metadata.total_providers = 1

====
